---- MODULE Spec2Model ----
(***************************************************************************)
(* A model of the deep-equality and deep-clone engine of tick-ts-utils.    *)
(*                                                                         *)
(* JavaScript values are records [t, v]: t is the kind of the value and v  *)
(* an integer payload (the number, the index of a string, the address of   *)
(* an object in the heap, the identity of a function).  The heap is a      *)
(* sequence of objects; an object's address is its index, and allocation   *)
(* appends.  An object carries its prototype (cls), its own properties in  *)
(* Reflect.ownKeys order, each with its value and its writable attribute,  *)
(* its extensible flag and its internal slot (the time value of a Date,    *)
(* the pattern of a RegExp).                                               *)
(***************************************************************************)
EXTENDS Integers, Sequences, FiniteSets, TLC

VARIABLES heap, call, writes, chunk, matcher, graph, search, sb

vars == <<heap, call, writes, chunk, matcher, graph, search, sb>>

\* the state of the other components: the running chunkArray, the Match,
\* the Graph, the search running on it, the StringBuilder
components == <<chunk, matcher, graph, search, sb>>

---------------------------------------------------------------------------
(* Values *)

Num(n) == [t |-> "num", v |-> n]
NaN == [t |-> "nan", v |-> 0]
NegZero == [t |-> "negzero", v |-> 0]
Str(i) == [t |-> "str", v |-> i]
Bool(i) == [t |-> "bool", v |-> i]
Null == [t |-> "null", v |-> 0]
Undef == [t |-> "undef", v |-> 0]
Ref(addr) == [t |-> "ref", v |-> addr]
Fn(id) == [t |-> "fn", v |-> id]

\* the `typeof` operator
TypeOf(x) ==
    CASE x.t \in {"num", "nan", "negzero"} -> "number"
      [] x.t = "str" -> "string"
      [] x.t = "bool" -> "boolean"
      [] x.t = "undef" -> "undefined"
      [] x.t = "fn" -> "function"
      [] OTHER -> "object"

\* the `===` operator: NaN differs from itself, +0 equals -0
StrictEquals(x, y) == x.t # "nan" /\ (x = y \/ {x, y} = {Num(0), NegZero})

\* Object.is: SameValue. NaN is the same value as NaN, +0 and -0 differ,
\* objects and functions are compared by identity.
ObjectIs_Strict(x, y) == StrictEquals(x, y)
ObjectIs_Never(x, y) == FALSE
ObjectIs_Loose(x, y) == StrictEquals(x, y) \/ {x, y} = {Null, Undef}
ObjectIs(x, y) == x = y

\* the `+` operator on two numbers (undefined converts to NaN)
JsAdd(x, y) ==
    IF x.t \in {"nan", "undef"} \/ y.t \in {"nan", "undef"} THEN NaN
    ELSE IF x.t = "negzero" /\ y.t = "negzero" THEN NegZero
    ELSE Num(x.v + y.v)

---------------------------------------------------------------------------
(* Functions.  1, 2 and 3 are functions of the caller: 1 and 2 are two     *)
(* evaluations of the same function expression (identical source text,     *)
(* distinct identity), 3 has another source text.  10 and 11 are the       *)
(* methods of the classes of the test suites, 14 is Duration's equals, 12  *)
(* to 17 are methods of classes of the caller:                             *)
(*   class WrongArity  { equals(a, b) {...}  deepClone(deep) {...} }       *)
(*   class DefaultArgs { equals(other, strict = false) {...}               *)
(*                       deepClone(deep = true) {...} }                    *)
(*   class Failing     { deepClone() { throw ... } }                       *)

EqualsMethod == Fn(10)
DeepCloneMethod == Fn(11)
WrongArity_equalsMethod == Fn(12)
WrongArity_deepCloneMethod == Fn(13)
Duration_equalsMethod == Fn(14)
DefaultArgs_equalsMethod == Fn(15)
DefaultArgs_deepCloneMethod == Fn(16)
Failing_deepCloneMethod == Fn(17)

\* the declared parameters of a function: plain ones and ones with a default
Params(f) ==
    CASE f \in {EqualsMethod, Duration_equalsMethod, WrongArity_deepCloneMethod}
            -> <<"plain">>
      [] f = WrongArity_equalsMethod -> <<"plain", "plain">>
      [] f = DefaultArgs_equalsMethod -> <<"plain", "default">>
      [] f = DefaultArgs_deepCloneMethod -> <<"default">>
      [] OTHER -> <<>>

\* Function.prototype.length: the number of parameters before the first one
\* with a default value
FnLength(f) ==
    Cardinality({i \in 1..Len(Params(f)) :
                    \A j \in 1..i : Params(f)[j] = "plain"})

\* Function.prototype.toString
FnSource(f) == IF f.v \in {1, 2} THEN 1 ELSE f.v

---------------------------------------------------------------------------
(* Objects and the heap *)

Obj(h, x) == h[x.v]

IsRef(x) == x.t = "ref"

\* Reflect.ownKeys
OwnKeys(o) == [i \in 1..Len(o.props) |-> o.props[i].k]

KeySet(o) == {o.props[i].k : i \in 1..Len(o.props)}

KeyIndex(o, k) == CHOOSE i \in 1..Len(o.props) : o.props[i].k = k

\* the methods a prototype provides
ClassMethod(cls, name) ==
    CASE cls = "TestClassWithEquals" /\ name = "equals" -> EqualsMethod
      [] cls = "A" /\ name = "deepClone" -> DeepCloneMethod
      [] cls = "Duration" /\ name = "equals" -> Duration_equalsMethod
      [] cls = "WrongArity" /\ name = "equals" -> WrongArity_equalsMethod
      [] cls = "WrongArity" /\ name = "deepClone" -> WrongArity_deepCloneMethod
      [] cls = "DefaultArgs" /\ name = "equals" -> DefaultArgs_equalsMethod
      [] cls = "DefaultArgs" /\ name = "deepClone" -> DefaultArgs_deepCloneMethod
      [] cls = "Failing" /\ name = "deepClone" -> Failing_deepCloneMethod
      [] OTHER -> Undef

\* `name in object`
In(h, name, x) ==
    name \in KeySet(Obj(h, x)) \/ ClassMethod(Obj(h, x).cls, name) # Undef

\* the property read `object[name]`
Get(h, x, name) ==
    LET o == Obj(h, x) IN
    IF name \in KeySet(o) THEN o.props[KeyIndex(o, name)].v
    ELSE ClassMethod(o.cls, name)

\* `x instanceof Object`: Object.prototype is on the prototype chain
InstanceOfObject(h, x) ==
    \/ x.t = "fn"
    \/ IsRef(x) /\ Obj(h, x).cls # "Null"

InstanceOf(h, x, cls) == IsRef(x) /\ Obj(h, x).cls = cls

hasFunctionWithArity(h, object, name, arity) ==
    /\ object # Null
    /\ object # Undef
    /\ TypeOf(object) = "object"
    /\ In(h, name, object)
    /\ TypeOf(Get(h, object, name)) = "function"
    /\ FnLength(Get(h, object, name)) = arity

---------------------------------------------------------------------------
(* deepEquals *)

Truth(b) == IF b THEN "true" ELSE "false"

\* TestClassWithEquals.prototype.equals, called on `this` with `other`
TestClassWithEquals_equals(h, this, other) ==
    IF ~InstanceOf(h, other, "TestClassWithEquals") THEN "false"
    ELSE Truth(StrictEquals(JsAdd(Get(h, this, "a"), Get(h, this, "b")),
                            JsAdd(Get(h, other, "a"), Get(h, other, "b"))))

\* Duration.prototype.equals: `this.milliseconds === duration.milliseconds`,
\* a TypeError when duration is null or undefined
Duration_equals(h, this, duration) ==
    IF duration \in {Null, Undef} THEN "threw"
    ELSE Truth(StrictEquals(Get(h, this, "milliseconds"),
                            IF IsRef(duration)
                            THEN Get(h, duration, "milliseconds")
                            ELSE Undef))

\* DefaultArgs.prototype.equals: `return this === other`
DefaultArgs_equals(h, this, other) == Truth(this = other)

\* the call `value.equals(other)`: "true", "false", or "threw" when the
\* method throws
CallEquals(h, value, other) ==
    CASE Get(h, value, "equals") = EqualsMethod
            -> TestClassWithEquals_equals(h, value, other)
      [] Get(h, value, "equals") = Duration_equalsMethod
            -> Duration_equals(h, value, other)
      [] Get(h, value, "equals") = DefaultArgs_equalsMethod
            -> DefaultArgs_equals(h, value, other)
      [] OTHER -> "false"

hasEqualFunction(h, value) == hasFunctionWithArity(h, value, "equals", 1)

\* whose hook decides deepEquals(value1, value2): that of value1 first
HookOwner_SecondFirst(h, value1, value2) ==
    IF hasEqualFunction(h, value2) THEN "b"
    ELSE IF hasEqualFunction(h, value1) THEN "a"
    ELSE "none"

HookOwner(h, value1, value2) ==
    IF hasEqualFunction(h, value1) THEN "a"
    ELSE IF hasEqualFunction(h, value2) THEN "b"
    ELSE "none"

\* keys1.length === keys2.length
SameLength_Always(keys1, keys2) == TRUE

SameLength(keys1, keys2) == Len(keys1) = Len(keys2)

\* One invocation of deepEquals in the log of a call: its arguments, whose
\* hook decided it ("a", "b" or "none") and what it returned.
Invocation(value1, value2, by, res) ==
    [a |-> value1, b |-> value2, by |-> by, res |-> res]

Returned(value1, value2, by, res) ==
    [res |-> res, log |-> <<Invocation(value1, value2, by, res)>>]

RECURSIVE deepEqualsRec(_, _, _, _)
RECURSIVE every(_, _, _, _, _, _)

\* keys1.every((key) => ...) from the i-th key on.  The result is "true",
\* "false", "overflow" when the recursion never returns, or "threw" when a
\* hook threw.
every(h, stack, value1, value2, i, log) ==
    LET o1 == Obj(h, value1)
        o2 == Obj(h, value2)
    IN
    IF i > Len(o1.props) THEN [res |-> "true", log |-> log]
    ELSE
        LET key == o1.props[i].k
            x == o1.props[i].v
        IN
        IF key \notin KeySet(o2) THEN [res |-> "false", log |-> log]
        ELSE
            LET y == o2.props[KeyIndex(o2, key)].v IN
            IF /\ TypeOf(x) = "function"
               /\ TypeOf(y) = "function"
               /\ FnSource(x) # FnSource(y)
            THEN [res |-> "false", log |-> log]
            ELSE
                LET r == deepEqualsRec(h, stack, x, y) IN
                IF r.res = "true"
                THEN every(h, stack, value1, value2, i + 1, log \o r.log)
                ELSE [res |-> r.res, log |-> log \o r.log]

\* deepEquals(value1, value2) below the invocations in `stack`.  A pair that
\* is already on the stack is compared again and again: the recursion has no
\* end and the call fails with the engine's stack overflow.
deepEqualsRec(h, stack, value1, value2) ==
    IF <<value1, value2>> \in stack
    THEN Returned(value1, value2, "none", "overflow")
    ELSE IF HookOwner(h, value1, value2) = "a"
    THEN Returned(value1, value2, "a", CallEquals(h, value1, value2))
    ELSE IF HookOwner(h, value1, value2) = "b"
    THEN Returned(value1, value2, "b", CallEquals(h, value2, value1))
    ELSE IF ObjectIs(value1, value2)
    THEN Returned(value1, value2, "none", "true")
    ELSE IF value1 = Null \/ value2 = Null \/ value1 = Undef \/ value2 = Undef
    THEN Returned(value1, value2, "none", "false")
    ELSE IF TypeOf(value1) # "object" \/ TypeOf(value2) # "object"
    THEN Returned(value1, value2, "none", "false")
    ELSE IF ~SameLength(OwnKeys(Obj(h, value1)), OwnKeys(Obj(h, value2)))
    THEN Returned(value1, value2, "none", "false")
    ELSE
        LET r == every(h, stack \cup {<<value1, value2>>}, value1, value2, 1, <<>>)
        IN [res |-> r.res,
            log |-> <<Invocation(value1, value2, "none", r.res)>> \o r.log]

deepEquals(h, value1, value2) == deepEqualsRec(h, {}, value1, value2)

---------------------------------------------------------------------------
(* deepClone *)

NewObject(cls, props, slot) ==
    [cls |-> cls, props |-> props, ext |-> TRUE, slot |-> slot]

Prop(k, v) == [k |-> k, v |-> v, w |-> TRUE]

\* The outcome of a call that may allocate: the heap after it, the visited
\* map after it, the value returned, and whether it threw instead.
Outcome(h, map, val) == [heap |-> h, map |-> map, val |-> val, threw |-> FALSE]

\* what a call throws: the TypeError of the engine, or the error of a hook
TypeError == [t |-> "err", v |-> 1]
HookError == [t |-> "err", v |-> 2]

ThrownBy(h, map, err) == [heap |-> h, map |-> map, val |-> err, threw |-> TRUE]

Thrown(h, map) == ThrownBy(h, map, TypeError)

\* A.prototype.deepClone: `return new A(this.a)`
A_deepClone(h, map, this) ==
    Outcome(Append(h, NewObject("A", <<Prop("a", Get(h, this, "a"))>>, 0)),
            map, Ref(Len(h) + 1))

\* DefaultArgs.prototype.deepClone: `return this`
DefaultArgs_deepClone(h, map, this) == Outcome(h, map, this)

\* Failing.prototype.deepClone: `throw new Error()`
Failing_deepClone(h, map, this) == ThrownBy(h, map, HookError)

\* the call `value.deepClone()`
CallDeepClone(h, map, value) ==
    CASE Get(h, value, "deepClone") = DeepCloneMethod
            -> A_deepClone(h, map, value)
      [] Get(h, value, "deepClone") = DefaultArgs_deepCloneMethod
            -> DefaultArgs_deepClone(h, map, value)
      [] Get(h, value, "deepClone") = Failing_deepCloneMethod
            -> Failing_deepClone(h, map, value)
      [] OTHER -> Outcome(h, map, Undef)

hasDeepCloneMethod(h, value) == hasFunctionWithArity(h, value, "deepClone", 0)

isObjectOrFunction_FunctionOnly(value) == TypeOf(value) = "function"

isObjectOrFunction(value) ==
    TypeOf(value) = "object" \/ TypeOf(value) = "function"

\* the assignment `cloned[key] = val` of a strict-mode module, on the i-th
\* own property of the clone: a TypeError when the property is read-only
CanAssign(h, cloned, i) == Obj(h, cloned).props[i].w

\* an exception of a nested call is not caught: it ends this call too
Propagate_Caught(r) == Outcome(r.heap, r.map, Undef)

Propagate(r) == r

\* the object the assignment writes to: the clone
Target_Source(toClone, cloned) == toClone

Target(toClone, cloned) == cloned

Assign(h, object, i, val) ==
    [h EXCEPT ![object.v].props[i].v = val]

RECURSIVE internalDeepClone(_, _, _)
RECURSIVE forEachKey(_, _, _, _, _)

\* Reflect.ownKeys(toClone).forEach((key) => ...) from the i-th key on
forEachKey(h, map, toClone, cloned, i) ==
    IF i > Len(Obj(h, cloned).props) THEN Outcome(h, map, cloned)
    ELSE
        LET val == Get(h, toClone, Obj(h, cloned).props[i].k)
            r == IF InstanceOfObject(h, val)
                 THEN internalDeepClone(h, map, val)
                 ELSE Outcome(h, map, val)
        IN
        IF r.threw THEN Propagate(r)
        ELSE IF ~CanAssign(r.heap, cloned, i) THEN Thrown(r.heap, r.map)
        ELSE forEachKey(Assign(r.heap, Target(toClone, cloned), i, r.val),
                        r.map, toClone, cloned, i + 1)

internalDeepClone(h, map, value) ==
    IF hasDeepCloneMethod(h, value) THEN CallDeepClone(h, map, value)
    ELSE IF ~isObjectOrFunction(value) THEN Outcome(h, map, value)
    ELSE IF TypeOf(value) = "function" THEN Outcome(h, map, value)
    ELSE IF InstanceOf(h, value, "Date")
    THEN Outcome(Append(h, NewObject("Date", <<>>, Obj(h, value).slot)),
                 map, Ref(Len(h) + 1))
    ELSE IF InstanceOf(h, value, "RegExp")
    THEN Outcome(Append(h, NewObject("RegExp", <<Prop("lastIndex", Num(0))>>,
                                     Obj(h, value).slot)),
                 map, Ref(Len(h) + 1))
    ELSE IF value = Null THEN Thrown(h, map)
    ELSE IF value.v \in DOMAIN map THEN Outcome(h, map, Ref(map[value.v]))
    ELSE
        LET cloned == Ref(Len(h) + 1)
            created == Append(h, [Obj(h, value) EXCEPT !.ext = TRUE, !.slot = 0])
        IN forEachKey(created, (value.v :> cloned.v) @@ map, value, cloned, 1)

deepClone(h, value) == internalDeepClone(h, <<>>, value)

---------------------------------------------------------------------------
(* The caller: it builds values, calls deepClone and deepEquals on them    *)
(* and assigns to fields of the values and of their clones.                *)

MaxObjects == 2
MaxProps == 4
MaxWrites == 1

Keys == {"a", "b"}

Refs(h) == {Ref(i) : i \in 1..Len(h)}

\* the sequences of at most two properties with distinct keys
PropSeqs(vals) ==
    {<<>>}
    \cup {<<Prop(k, v)>> : k \in Keys, v \in vals}
    \cup {<<Prop(kk[1], vv[1]), Prop(kk[2], vv[2])>> :
             kk \in {kk \in Keys \X Keys : kk[1] # kk[2]},
             vv \in vals \X vals}

Numbers == {Num(1), Num(2), NaN}

\* {...} and Object.create(null) with fields, in a heap of n objects
ObjectLiterals(n) ==
    {NewObject(cls, props, 0) :
        cls \in {"Object", "Null"},
        props \in PropSeqs({Num(1)} \cup {Ref(i) : i \in 1..n})}

\* new TestClassWithEquals(a, b)
HookInstances ==
    {NewObject("TestClassWithEquals", <<Prop("a", x), Prop("b", y)>>, 0) :
        x \in Numbers, y \in Numbers}

\* new A(1)
CloneableInstances == {NewObject("A", <<Prop("a", Num(1))>>, 0)}

\* new Date(0)
Dates == {NewObject("Date", <<>>, 0)}

\* Object.freeze({ a: 1 })
FrozenObjects ==
    {[cls |-> "Object", props |-> <<[k |-> "a", v |-> Num(1), w |-> FALSE]>>,
      ext |-> FALSE, slot |-> 0]}

RECURSIVE TotalProps(_)
TotalProps(h) ==
    IF h = <<>> THEN 0 ELSE Len(h[1].props) + TotalProps(Tail(h))

\* the heaps of n objects drawn from objs, with at most MaxProps properties
Heaps(objs, n) == {h \in [1..n -> objs] : TotalProps(h) <= MaxProps}

InitHeaps(n) ==
    Heaps(ObjectLiterals(n) \cup HookInstances \cup CloneableInstances
             \cup Dates \cup FrozenObjects, n)

\* The other components before the caller touches them: no chunkArray is
\* running, a Match on undefined without patterns, a new Graph(), no search
\* running on it, a new StringBuilder().
NoChunk ==
    [pc |-> "idle", array |-> <<>>, size |-> 0, i |-> 0, result |-> <<>>]

NewMatch(value) == [value |-> value, patterns |-> <<>>]

NewGraph(directed) ==
    [directed |-> directed, vertices |-> {}, edges |-> [v \in {} |-> <<>>]]

NoSearch ==
    [pc |-> "idle", kind |-> "none", start |-> 0, visitor |-> 0,
     visited |-> {}, pending |-> <<>>, visits |-> <<>>]

ComponentsInit ==
    /\ chunk = NoChunk
    /\ matcher = NewMatch(Undef)
    /\ graph = NewGraph(TRUE)
    /\ search = NoSearch
    /\ sb = <<>>

\* The caller's record of its calls: the last deepEquals (x, y, its result
\* and its log of invocations) and the deepClone before it (src, the value
\* returned or the failure, the visited map at the end, the heap before).
\* out2 is what a second deepClone of src returned.
\* For a method of Result: the receiver (src), the function passed (fn), the
\* value returned or the failure (out, threw), the calls of functions passed
\* in, each with its argument (calls), and the heap before (pre).
NoCall ==
    [op |-> "none", x |-> Undef, y |-> Undef, res |-> "none", log |-> <<>>,
     cloned |-> FALSE, src |-> Undef, out |-> Undef, threw |-> FALSE,
     map |-> <<>>, pre |-> <<>>, fn |-> Undef, calls |-> <<>>,
     out2 |-> Undef]

Init ==
    /\ \E n \in 1..MaxObjects : heap \in InitHeaps(n)
    /\ call = NoCall
    /\ writes = <<>>
    /\ ComponentsInit

\* c = deepClone(value)
DeepCloneCall(value) ==
    /\ call.op = "none"
    /\ LET r == deepClone(heap, value) IN
       /\ heap' = r.heap
       /\ call' = [NoCall EXCEPT !.op = "deepClone", !.cloned = TRUE,
                                 !.src = value, !.out = r.val,
                                 !.threw = r.threw, !.map = r.map,
                                 !.pre = heap]
    /\ UNCHANGED <<writes, components>>

\* c2 = deepClone(value), for the value cloned before
DeepCloneAgain(value) ==
    /\ call.op = "deepClone"
    /\ ~call.threw
    /\ writes = <<>>
    /\ value = call.src
    /\ LET r == deepClone(heap, value) IN
       /\ heap' = r.heap
       /\ call' = [call EXCEPT !.op = "deepCloneAgain", !.out2 = r.val,
                               !.threw = r.threw]
    /\ UNCHANGED <<writes, components>>

\* deepEquals(value1, value2)
DeepEqualsCall(value1, value2) ==
    /\ call.op \in {"none", "deepClone"}
    /\ LET r == deepEquals(heap, value1, value2) IN
       call' = [call EXCEPT !.op = "deepEquals", !.x = value1, !.y = value2,
                            !.res = r.res, !.log = r.log]
    /\ UNCHANGED <<heap, writes, components>>

\* the assignment `object[key] = val` of a strict-mode caller: a TypeError,
\* and no change, on a read-only property or a non-extensible object
WriteField(object, key, val) ==
    /\ call.op = "deepClone"
    /\ ~call.threw
    /\ Len(writes) < MaxWrites
    /\ writes' = Append(writes, object.v)
    /\ LET o == Obj(heap, object) IN
       heap' = IF key \in KeySet(o)
               THEN IF o.props[KeyIndex(o, key)].w
                    THEN [heap EXCEPT ![object.v].props[KeyIndex(o, key)].v = val]
                    ELSE heap
               ELSE IF o.ext
                    THEN [heap EXCEPT ![object.v].props = Append(@, Prop(key, val))]
                    ELSE heap
    /\ UNCHANGED <<call, components>>

\* what the caller passes to deepClone
CloneOperands == Refs(heap) \cup {Num(1), Null, Fn(1)}

\* what the caller passes to deepEquals: a value and its clone once it has
\* cloned one, else any two of its values
EqualsOperands ==
    IF call.cloned
    THEN IF call.threw THEN {} ELSE {call.src, call.out}
    ELSE Refs(heap) \cup {Num(1), Fn(1)}

Next ==
    \/ \E value \in CloneOperands : DeepCloneCall(value)
    \/ \E value \in CloneOperands : DeepCloneAgain(value)
    \/ \E value1, value2 \in EqualsOperands : DeepEqualsCall(value1, value2)
    \/ \E object \in Refs(heap), key \in Keys : WriteField(object, key, Num(3))

Spec == Init /\ [][Next]_vars

---------------------------------------------------------------------------
(* The caller that compares and clones primitives and functions: no        *)
(* objects.                                                                *)

Primitives ==
    {Num(0), NegZero, Num(1), Num(2), NaN, Str(1), Str(2), Bool(0), Bool(1),
     Null, Undef}

Functions == {Fn(1), Fn(2), Fn(3)}

InitPrim ==
    /\ heap = <<>>
    /\ call = NoCall
    /\ writes = <<>>
    /\ ComponentsInit

NextPrim ==
    \/ \E value1, value2 \in Primitives \cup Functions :
          DeepEqualsCall(value1, value2)
    \/ \E value \in Primitives \cup Functions : DeepCloneCall(value)

SpecPrim == InitPrim /\ [][NextPrim]_vars

---------------------------------------------------------------------------
(* The caller that only compares: plain objects and instances of           *)
(* TestClassWithEquals and of A, compared with each other, with a number   *)
(* and with a function.                                                    *)

PlainObjects(n) ==
    {NewObject("Object", props, 0) :
        props \in PropSeqs({Num(1)} \cup {Ref(i) : i \in 1..n})}

InitEq ==
    /\ \E n \in 1..MaxObjects : heap \in Heaps(PlainObjects(n) \cup HookInstances \cup CloneableInstances, n)
    /\ call = NoCall
    /\ writes = <<>>
    /\ ComponentsInit

NextEq ==
    \E value1, value2 \in Refs(heap) \cup {Num(1), Fn(1)} :
        DeepEqualsCall(value1, value2)

SpecEq == InitEq /\ [][NextEq]_vars

---------------------------------------------------------------------------
(* The caller that clones and compares instances of classes with hooks:    *)
(* A, Duration, the classes WrongArity, DefaultArgs and Failing, an object *)
(* without prototype that carries A's deepClone as an own property, and    *)
(* object literals that hold one of these, null or a function in a field.  *)

HookedInstances ==
    {NewObject("A", <<Prop("a", Num(1))>>, 0),
     NewObject("Null", <<Prop("deepClone", DeepCloneMethod)>>, 0),
     NewObject("Duration", <<Prop("milliseconds", Num(1))>>, 0),
     NewObject("WrongArity", <<Prop("a", Num(1))>>, 0),
     NewObject("DefaultArgs", <<Prop("a", Num(1))>>, 0),
     NewObject("Failing", <<>>, 0)}

Holders(n) ==
    {NewObject("Object", <<>>, 0)}
    \cup {NewObject("Object", <<Prop("a", v)>>, 0) :
             v \in {Null, Fn(1), Fn(2), Fn(3)} \cup {Ref(i) : i \in 1..n}}

InitHooks ==
    /\ \E n \in 1..MaxObjects : heap \in Heaps(HookedInstances \cup Holders(n), n)
    /\ call = NoCall
    /\ writes = <<>>
    /\ ComponentsInit

NextHooks ==
    \/ \E value \in Refs(heap) : DeepCloneCall(value)
    \/ \E value1, value2 \in Refs(heap) \cup {Null, Num(1)} :
          ~call.cloned /\ DeepEqualsCall(value1, value2)

SpecHooks == InitHooks /\ [][NextHooks]_vars

---------------------------------------------------------------------------
(* Result.  A Result is an object of class Result with the own properties  *)
(* value and error.  The functions passed to its methods are functions of  *)
(* the caller:                                                             *)
(*   21  () => 1              22  () => undefined                          *)
(*   23  () => { throw "boom" }                                            *)
(*   24  (x) => x             25  (x) => x === 1                           *)
(*   26  () => true           27  () => false                              *)

\* the call f(x): the value returned, or the value thrown
CallFunc(f, x) ==
    CASE f = Fn(21) -> [threw |-> FALSE, val |-> Num(1)]
      [] f = Fn(22) -> [threw |-> FALSE, val |-> Undef]
      [] f = Fn(23) -> [threw |-> TRUE, val |-> Str(1)]
      [] f = Fn(24) -> [threw |-> FALSE, val |-> x]
      [] f = Fn(25) -> [threw |-> FALSE, val |-> Bool(IF StrictEquals(x, Num(1)) THEN 1 ELSE 0)]
      [] f = Fn(26) -> [threw |-> FALSE, val |-> Bool(1)]
      [] f = Fn(27) -> [threw |-> FALSE, val |-> Bool(0)]

\* the conversion to a boolean of the condition of an `if` (the strings of
\* the model are not empty)
ToBoolean(x) == x \notin {Undef, Null, NaN, NegZero, Num(0), Bool(0)}

\* the error thrown by get() on a Result without a value
GetErrorResult == [t |-> "err", v |-> 3]

\* The outcome of a method of Result: the heap after it, the value returned
\* or the value thrown, and the calls it made of the functions passed in.
Returns(h, val, calls) ==
    [heap |-> h, val |-> val, threw |-> FALSE, calls |-> calls]

Throws(h, err, calls) ==
    [heap |-> h, val |-> err, threw |-> TRUE, calls |-> calls]

\* one call of a function passed in
Called(f, x) == [fn |-> f, arg |-> x]

\* new Result(value, error)
Result_new(h, value, error, calls) ==
    Returns(Append(h, NewObject("Result",
                                <<Prop("value", value), Prop("error", error)>>,
                                0)),
            Ref(Len(h) + 1), calls)

Result_ok(h, value, calls) == Result_new(h, value, Undef, calls)

Result_error(h, error, calls) == Result_new(h, Undef, error, calls)

Result_try(h, func) ==
    LET c == CallFunc(func, Undef) IN
    IF c.threw THEN Result_error(h, c.val, <<Called(func, Undef)>>)
    ELSE Result_ok(h, c.val, <<Called(func, Undef)>>)

\* this.value !== undefined
Result_isOk(h, this) == ~StrictEquals(Get(h, this, "value"), Undef)

\* this.error !== undefined
Result_isError(h, this) == ~StrictEquals(Get(h, this, "error"), Undef)

Result_filter(h, this, func) ==
    IF Result_isError(h, this)
    THEN Result_error(h, Get(h, this, "error"), <<>>)
    ELSE
        LET c == CallFunc(func, Get(h, this, "value"))
            calls == <<Called(func, Get(h, this, "value"))>>
        IN
        IF c.threw THEN Throws(h, c.val, calls)
        ELSE IF ToBoolean(c.val) THEN Result_ok(h, Get(h, this, "value"), calls)
        ELSE Result_error(h, Get(h, this, "error"), calls)

Result_map(h, this, func) ==
    IF Result_isError(h, this)
    THEN Result_error(h, Get(h, this, "error"), <<>>)
    ELSE
        LET c == CallFunc(func, Get(h, this, "value"))
            calls == <<Called(func, Get(h, this, "value"))>>
        IN
        IF c.threw THEN Throws(h, c.val, calls)
        ELSE Result_ok(h, c.val, calls)

Result_mapError(h, this, func) ==
    IF Result_isOk(h, this)
    THEN Result_ok(h, Get(h, this, "value"), <<>>)
    ELSE
        LET c == CallFunc(func, Get(h, this, "error"))
            calls == <<Called(func, Get(h, this, "error"))>>
        IN
        IF c.threw THEN Throws(h, c.val, calls)
        ELSE Result_error(h, c.val, calls)

Result_mapBoth(h, this, func, errorFunc) ==
    LET f == IF StrictEquals(Get(h, this, "value"), Undef)
             THEN errorFunc ELSE func
        x == IF StrictEquals(Get(h, this, "value"), Undef)
             THEN Get(h, this, "error") ELSE Get(h, this, "value")
        c == CallFunc(f, x)
    IN
    IF c.threw THEN Throws(h, c.val, <<Called(f, x)>>)
    ELSE IF StrictEquals(Get(h, this, "value"), Undef)
    THEN Result_error(h, c.val, <<Called(f, x)>>)
    ELSE Result_ok(h, c.val, <<Called(f, x)>>)

Result_get(h, this) ==
    IF StrictEquals(Get(h, this, "value"), Undef)
    THEN Throws(h, GetErrorResult, <<>>)
    ELSE Returns(h, Get(h, this, "value"), <<>>)

MaxResults == 3

\* what the caller stores in a Result and what it passes to its methods
ResultValues == {Undef, Num(1), Num(2)}
ResultErrors == {Undef, Str(1)}
Thunks == {Fn(21), Fn(22), Fn(23)}
Mappers == {Fn(21), Fn(22), Fn(23), Fn(24)}
Predicates == {Fn(23), Fn(25), Fn(26), Fn(27)}

InitResult ==
    /\ heap = <<>>
    /\ call = NoCall
    /\ writes = <<>>
    /\ ComponentsInit

\* the caller's record of a call of a method of Result
ResultCall(op, this, func, r) ==
    /\ heap' = r.heap
    /\ call' = [NoCall EXCEPT !.op = op, !.src = this, !.fn = func,
                              !.out = r.val, !.threw = r.threw,
                              !.calls = r.calls, !.pre = heap]
    /\ UNCHANGED <<writes, components>>

ResultOkCall(value) ==
    /\ Len(heap) < MaxResults
    /\ ResultCall("Result.ok", Undef, Undef, Result_ok(heap, value, <<>>))

ResultErrorCall(error) ==
    /\ Len(heap) < MaxResults
    /\ ResultCall("Result.error", Undef, Undef, Result_error(heap, error, <<>>))

ResultTryCall(func) ==
    /\ Len(heap) < MaxResults
    /\ ResultCall("Result.try", Undef, func, Result_try(heap, func))

ResultFilterCall(this, func) ==
    /\ Len(heap) < MaxResults
    /\ ResultCall("filter", this, func, Result_filter(heap, this, func))

ResultMapCall(this, func) ==
    /\ Len(heap) < MaxResults
    /\ ResultCall("map", this, func, Result_map(heap, this, func))

ResultMapErrorCall(this, func) ==
    /\ Len(heap) < MaxResults
    /\ ResultCall("mapError", this, func, Result_mapError(heap, this, func))

ResultMapBothCall(this, func, errorFunc) ==
    /\ Len(heap) < MaxResults
    /\ ResultCall("mapBoth", this, func,
                  Result_mapBoth(heap, this, func, errorFunc))

ResultGetCall(this) ==
    ResultCall("get", this, Undef, Result_get(heap, this))

NextResult ==
    \/ \E value \in ResultValues : ResultOkCall(value)
    \/ \E error \in ResultErrors : ResultErrorCall(error)
    \/ \E func \in Thunks : ResultTryCall(func)
    \/ \E this \in Refs(heap), func \in Predicates : ResultFilterCall(this, func)
    \/ \E this \in Refs(heap), func \in Mappers : ResultMapCall(this, func)
    \/ \E this \in Refs(heap), func \in Mappers : ResultMapErrorCall(this, func)
    \/ \E this \in Refs(heap), func \in Mappers, errorFunc \in Mappers :
          ResultMapBothCall(this, func, errorFunc)
    \/ \E this \in Refs(heap) : ResultGetCall(this)

SpecResult == InitResult /\ [][NextResult]_vars

---------------------------------------------------------------------------
(* Optional.  An Optional is an object of class Optional whose private     *)
(* field #value is kept as the property "#value".                          *)

\* the error thrown by get() on an empty Optional
NoValueInOptionalError == [t |-> "err", v |-> 4]

\* new Optional(value)
Optional_new(h, value, calls) ==
    Returns(Append(h, NewObject("Optional", <<Prop("#value", value)>>, 0)),
            Ref(Len(h) + 1), calls)

Optional_empty(h, calls) == Optional_new(h, Undef, calls)

Optional_of(h, value, calls) == Optional_new(h, value, calls)

\* this.#value !== undefined
Optional_isPresent(h, this) == ~StrictEquals(Get(h, this, "#value"), Undef)

\* this.#value === undefined
Optional_isEmpty(h, this) == StrictEquals(Get(h, this, "#value"), Undef)

Optional_get(h, this) ==
    IF StrictEquals(Get(h, this, "#value"), Undef)
    THEN Throws(h, NoValueInOptionalError, <<>>)
    ELSE Returns(h, Get(h, this, "#value"), <<>>)

Optional_filter(h, this, func) ==
    IF StrictEquals(Get(h, this, "#value"), Undef)
    THEN Optional_empty(h, <<>>)
    ELSE
        LET c == CallFunc(func, Get(h, this, "#value"))
            calls == <<Called(func, Get(h, this, "#value"))>>
        IN
        IF c.threw THEN Throws(h, c.val, calls)
        ELSE IF ToBoolean(c.val) THEN Returns(h, this, calls)
        ELSE Optional_empty(h, calls)

Optional_map(h, this, func) ==
    IF StrictEquals(Get(h, this, "#value"), Undef)
    THEN Optional_empty(h, <<>>)
    ELSE
        LET c == CallFunc(func, Get(h, this, "#value"))
            calls == <<Called(func, Get(h, this, "#value"))>>
        IN
        IF c.threw THEN Throws(h, c.val, calls)
        ELSE Optional_of(h, c.val, calls)

MaxOptionals == 3

\* what the caller wraps in an Optional
OptionalValues == {Undef, Null, Num(1), Num(2)}

InitOptional ==
    /\ heap = <<>>
    /\ call = NoCall
    /\ writes = <<>>
    /\ ComponentsInit

\* the caller's record of a call of a method of Optional: the receiver
\* (src), the argument (x), the value returned or the failure
OptionalCall(op, this, arg, r) ==
    /\ heap' = r.heap
    /\ call' = [NoCall EXCEPT !.op = op, !.src = this, !.x = arg,
                              !.out = r.val, !.threw = r.threw,
                              !.calls = r.calls, !.pre = heap]
    /\ UNCHANGED <<writes, components>>

OptionalOfCall(value) ==
    /\ Len(heap) < MaxOptionals
    /\ OptionalCall("Optional.of", Undef, value, Optional_of(heap, value, <<>>))

OptionalEmptyCall ==
    /\ Len(heap) < MaxOptionals
    /\ OptionalCall("Optional.empty", Undef, Undef, Optional_empty(heap, <<>>))

OptionalFilterCall(this, func) ==
    /\ Len(heap) < MaxOptionals
    /\ OptionalCall("Optional.filter", this, func,
                    Optional_filter(heap, this, func))

OptionalMapCall(this, func) ==
    /\ Len(heap) < MaxOptionals
    /\ OptionalCall("Optional.map", this, func, Optional_map(heap, this, func))

OptionalGetCall(this) ==
    OptionalCall("Optional.get", this, Undef, Optional_get(heap, this))

NextOptional ==
    \/ \E value \in OptionalValues : OptionalOfCall(value)
    \/ OptionalEmptyCall
    \/ \E this \in Refs(heap), func \in Predicates : OptionalFilterCall(this, func)
    \/ \E this \in Refs(heap), func \in Mappers : OptionalMapCall(this, func)
    \/ \E this \in Refs(heap) : OptionalGetCall(this)

SpecOptional == InitOptional /\ [][NextOptional]_vars

---------------------------------------------------------------------------
(* chunkArray.  An array is a sequence of numbers.  The for loop runs one  *)
(* iteration per step; chunk holds its frame: the arguments, i and result. *)
(* The loop has no exit other than i >= array.length: when result cannot   *)
(* take another element (MaxChunks stands for the memory of the engine),   *)
(* the push fails and the call never returns.                              *)

Max(a, b) == IF a >= b THEN a ELSE b

Min(a, b) == IF a <= b THEN a ELSE b

\* the relative index of Array.prototype.slice: counted from the end when
\* negative, clamped to 0..length
RelativeIndex(len, k) == IF k < 0 THEN Max(len + k, 0) ELSE Min(k, len)

\* array.slice(start, end)
slice(array, start, end) ==
    LET from == RelativeIndex(Len(array), start)
        to == RelativeIndex(Len(array), end)
    IN  IF from < to THEN SubSeq(array, from + 1, to) ELSE <<>>

MaxArrayLen == 3

MaxChunks == 4

Arrays == UNION {[1..n -> {1, 2}] : n \in 0..MaxArrayLen}

Sizes == -1..2

InitChunk ==
    /\ heap = <<>>
    /\ call = NoCall
    /\ writes = <<>>
    /\ ComponentsInit

\* chunkArray(array, size): entry, result = [] and i = 0
ChunkArrayCall(array, size) ==
    /\ chunk.pc \in {"idle", "returned"}
    /\ chunk' = [pc |-> "loop", array |-> array, size |-> size, i |-> 0,
                 result |-> <<>>]
    /\ call' = [NoCall EXCEPT !.op = "chunkArray"]
    /\ UNCHANGED <<heap, writes, matcher, graph, search, sb>>

\* one evaluation of i < array.length, and either the body and i += size
\* or the return
ChunkArrayStep ==
    /\ chunk.pc = "loop"
    /\ IF chunk.i < Len(chunk.array)
       THEN /\ chunk' =
                 IF Len(chunk.result) < MaxChunks
                 THEN [chunk EXCEPT
                         !.result = Append(@, slice(chunk.array, chunk.i,
                                                    chunk.i + chunk.size)),
                         !.i = @ + chunk.size]
                 ELSE [chunk EXCEPT !.pc = "exhausted"]
            /\ UNCHANGED call
       ELSE /\ chunk' = [chunk EXCEPT !.pc = "returned"]
            /\ call' = [call EXCEPT !.out = chunk.result]
    /\ UNCHANGED <<heap, writes, matcher, graph, search, sb>>

NextChunk ==
    \/ \E array \in Arrays, size \in Sizes : ChunkArrayCall(array, size)
    \/ ChunkArrayStep

SpecChunk == InitChunk /\ [][NextChunk]_vars

---------------------------------------------------------------------------
(* StringBuilder.  A string is a sequence of characters, <<>> the empty   *)
(* string; sb is #chars, an array of strings.  The parts passed in are     *)
(* strings and numbers of the caller.                                      *)

Digit(d) == <<CASE d = 0 -> "0" [] d = 1 -> "1" [] d = 2 -> "2"
                [] d = 3 -> "3" [] d = 4 -> "4" [] d = 5 -> "5"
                [] d = 6 -> "6" [] d = 7 -> "7" [] d = 8 -> "8"
                [] OTHER -> "9">>

\* String(part): a string is itself, a number is its decimal digits
String(part) ==
    IF part.t = "str" THEN part.s
    ELSE IF part.n < 10 THEN Digit(part.n)
    ELSE Digit(part.n \div 10) \o Digit(part.n % 10)

\* s.split(""): one string of one character per character
split(s) == [k \in 1..Len(s) |-> <<s[k]>>]

\* chars.splice(index, 0, s): s becomes one element, at the relative index
splice(chars, index, s) ==
    LET at == RelativeIndex(Len(chars), index)
    IN  SubSeq(chars, 1, at) \o <<s>> \o SubSeq(chars, at + 1, Len(chars))

RECURSIVE StringBuilder_append(_, _)
StringBuilder_append(chars, parts) ==
    IF parts = <<>> THEN chars
    ELSE StringBuilder_append(chars \o split(String(Head(parts))),
                              Tail(parts))

StringBuilder_appendLine(chars, parts) ==
    StringBuilder_append(chars, Append(parts, [t |-> "str", s |-> <<"\n">>]))

RECURSIVE StringBuilder_insert(_, _, _)
StringBuilder_insert(chars, index, parts) ==
    IF parts = <<>> THEN chars
    ELSE StringBuilder_insert(splice(chars, index, String(Head(parts))),
                              index, Tail(parts))

RECURSIVE join(_)
join(chars) == IF chars = <<>> THEN <<>> ELSE Head(chars) \o join(Tail(chars))

StringBuilder_toString(chars) == join(chars)

StringBuilder_length(chars) == Len(chars)

StringBuilder_isEmpty(chars) == StringBuilder_length(chars) = 0

MaxElements == 4

MaxParts == 2

Parts ==
    {[t |-> "str", s |-> <<>>], [t |-> "str", s |-> <<"a">>],
     [t |-> "str", s |-> <<"a", "b">>], [t |-> "num", n |-> 7],
     [t |-> "num", n |-> 12]}

PartLists == UNION {[1..n -> Parts] : n \in 0..MaxParts}

Indexes == -1..2

InitBuilder ==
    /\ heap = <<>>
    /\ call = NoCall
    /\ writes = <<>>
    /\ ComponentsInit

\* the builder after a call that left chars in #chars
BuilderCall(op, chars) ==
    /\ Len(chars) <= MaxElements
    /\ sb' = chars
    /\ call' = [NoCall EXCEPT !.op = op]
    /\ UNCHANGED <<heap, writes, chunk, matcher, graph, search>>

\* sb = new StringBuilder(...parts)
StringBuilderNew(parts) ==
    BuilderCall("new StringBuilder", StringBuilder_append(<<>>, parts))

AppendCall(parts) == BuilderCall("append", StringBuilder_append(sb, parts))

AppendLineCall(parts) ==
    BuilderCall("appendLine", StringBuilder_appendLine(sb, parts))

InsertCall(index, parts) ==
    BuilderCall("insert", StringBuilder_insert(sb, index, parts))

ClearCall == BuilderCall("clear", <<>>)

NextBuilder ==
    \/ \E parts \in PartLists : StringBuilderNew(parts)
    \/ \E parts \in PartLists : AppendCall(parts)
    \/ \E parts \in PartLists : AppendLineCall(parts)
    \/ \E index \in Indexes, parts \in PartLists : InsertCall(index, parts)
    \/ ClearCall

SpecBuilder == InitBuilder /\ [][NextBuilder]_vars

---------------------------------------------------------------------------
(* Match.  matcher is the Match object: the value matched and #patterns,  *)
(* an array of pairs [pattern, result].  A pattern is a function: one of   *)
(* the caller (25, 26, 27 above), the closure equalsFunction(expected)     *)
(* made by addEquals, or the closure (v) => values.includes(v) made by     *)
(* addItemInList; a closure is kept with what it captured.                 *)

FuncPattern(f) == [kind |-> "func", fn |-> f]

\* equalsFunction(expected)
equalsFunction(expected) == [kind |-> "equals", expected |-> expected]

\* (v) => values.includes(v)
IncludesPattern(values) == [kind |-> "includes", values |-> values]

\* SameValueZero, the comparison of Array.prototype.includes
SameValueZero(x, y) == x = y \/ {x, y} = {Num(0), NegZero}

includes(values, v) == \E k \in 1..Len(values) : SameValueZero(values[k], v)

\* pattern(value)
CallPattern(pattern, value) ==
    CASE pattern.kind = "func" -> CallFunc(pattern.fn, value).val
      [] pattern.kind = "equals" ->
            Bool(IF StrictEquals(value, pattern.expected) THEN 1 ELSE 0)
      [] pattern.kind = "includes" ->
            Bool(IF includes(pattern.values, value) THEN 1 ELSE 0)

\* an array as a value
Array(elements) == [t |-> "array", v |-> elements]

\* array.find(predicate) over pairs [pattern, result]: the first pair whose
\* pattern returns a truthy value for the value matched, or undefined
RECURSIVE find(_, _)
find(patterns, value) ==
    IF patterns = <<>> THEN Undef
    ELSE IF ToBoolean(CallPattern(Head(patterns)[1], value))
    THEN Array(Head(patterns))
    ELSE find(Tail(patterns), value)

Match_addFunc(m, pattern, result) ==
    [m EXCEPT !.patterns = Append(@, <<pattern, result>>)]

Match_addEquals(m, value, result) ==
    Match_addFunc(m, equalsFunction(value), result)

Match_addItemInList(m, values, result) ==
    Match_addFunc(m, IncludesPattern(values), result)

Match_matches(m) == find(m.patterns, m.value)

\* a?.[1]
OptionalSecond(a) == IF a.t \in {"undef", "null"} THEN Undef ELSE a.v[2]

\* a ?? b
Coalesce(a, b) == IF a \in {Undef, Null} THEN b ELSE a

Match_getOrElse(m, result) ==
    Coalesce(OptionalSecond(Match_matches(m)), result)

MaxPatterns == 2

MatchValues == {Num(1), Num(2), NaN}

MatchLists == {<<>>, <<Num(1)>>, <<Num(2), NaN>>}

MatchPredicates == {Fn(25), Fn(26), Fn(27)}

MatchResults == {Str(1), Str(2), Null}

MatchDefaults == {Str(3), Null}

\* m = match(value)
InitMatch ==
    /\ heap = <<>>
    /\ call = NoCall
    /\ writes = <<>>
    /\ chunk = NoChunk
    /\ \E value \in MatchValues : matcher = NewMatch(value)
    /\ graph = NewGraph(TRUE)
    /\ search = NoSearch
    /\ sb = <<>>

\* a method that adds a pattern and leaves m as the Match
MatchAdd(op, m) ==
    /\ Len(matcher.patterns) < MaxPatterns
    /\ matcher' = m
    /\ call' = [NoCall EXCEPT !.op = op]
    /\ UNCHANGED <<heap, writes, chunk, graph, search, sb>>

AddFuncCall(pattern, result) ==
    MatchAdd("addFunc", Match_addFunc(matcher, FuncPattern(pattern), result))

AddEqualsCall(value, result) ==
    MatchAdd("addEquals", Match_addEquals(matcher, value, result))

AddItemInListCall(values, result) ==
    MatchAdd("addItemInList", Match_addItemInList(matcher, values, result))

\* m.getOrElse(result)
GetOrElseCall(result) ==
    /\ call' = [NoCall EXCEPT !.op = "getOrElse", !.x = result,
                              !.out = Match_getOrElse(matcher, result)]
    /\ UNCHANGED <<heap, writes, chunk, matcher, graph, search, sb>>

NextMatch ==
    \/ \E pattern \in MatchPredicates, result \in MatchResults :
          AddFuncCall(pattern, result)
    \/ \E value \in MatchValues, result \in MatchResults :
          AddEqualsCall(value, result)
    \/ \E values \in MatchLists, result \in MatchResults :
          AddItemInListCall(values, result)
    \/ \E result \in MatchDefaults : GetOrElseCall(result)

SpecMatch == InitMatch /\ [][NextMatch]_vars

---------------------------------------------------------------------------
(* Graph.  graph is the Graph object: directed, #vertices as a set and    *)
(* #edges as a function from a vertex to the function from the vertices    *)
(* its edges go to, to the values of these edges.  Vertices and edge       *)
(* values are numbers of the caller.                                       *)

\* the error thrown by addEdge and removeEdge for a vertex not in the graph
GraphError == [t |-> "err", v |-> 5]

\* The outcome of a method of Graph: the graph after it and the value
\* returned or thrown.
GraphReturns(g, val) == [graph |-> g, val |-> val, threw |-> FALSE]

GraphThrows(g) == [graph |-> g, val |-> GraphError, threw |-> TRUE]

\* this.#edges.get(from)?.has(to)
HasEdge(g, from, to) ==
    from \in DOMAIN g.edges /\ to \in DOMAIN g.edges[from]

\* this.#edges.get(from)?.set(to, value)
SetEdge(edges, from, to, value) ==
    IF from \in DOMAIN edges
    THEN [edges EXCEPT ![from] =
             [x \in DOMAIN @ \cup {to} |-> IF x = to THEN value ELSE @[x]]]
    ELSE edges

\* this.#edges.get(from)?.delete(to)
DeleteEdge(edges, from, to) ==
    IF from \in DOMAIN edges
    THEN [edges EXCEPT ![from] = [x \in DOMAIN @ \ {to} |-> @[x]]]
    ELSE edges

\* for (const edges of this.#edges.values()) edges.delete(vertex)
DeleteIncoming_Keep(edges, vertex) == edges

DeleteIncoming(edges, vertex) ==
    [from \in DOMAIN edges |->
        [x \in DOMAIN edges[from] \ {vertex} |-> edges[from][x]]]

Graph_addVertex(g, vertex) ==
    IF vertex \in g.vertices THEN GraphReturns(g, Bool(0))
    ELSE GraphReturns(
           [g EXCEPT !.vertices = @ \cup {vertex},
                     !.edges = [x \in DOMAIN @ \cup {vertex} |->
                                   IF x = vertex THEN <<>> ELSE @[x]]],
           Bool(1))

Graph_addEdge(g, from, to, value) ==
    IF from \notin g.vertices \/ to \notin g.vertices THEN GraphThrows(g)
    ELSE IF HasEdge(g, from, to) THEN GraphReturns(g, Bool(0))
    ELSE LET there == SetEdge(g.edges, from, to, value)
             back == IF ~g.directed THEN SetEdge(there, to, from, value)
                     ELSE there
         IN  GraphReturns([g EXCEPT !.edges = back], Bool(1))

Graph_addUndirectedEdge(g, vertex1, vertex2, value) ==
    LET first == Graph_addEdge(g, vertex1, vertex2, value) IN
    IF first.threw THEN first
    ELSE LET second == Graph_addEdge(first.graph, vertex2, vertex1, value) IN
         IF second.threw THEN second
         ELSE GraphReturns(second.graph, Undef)

Graph_removeVertex(g, vertex) ==
    IF vertex \notin g.vertices THEN GraphReturns(g, Bool(0))
    ELSE LET rest == [x \in DOMAIN g.edges \ {vertex} |-> g.edges[x]] IN
         GraphReturns([g EXCEPT !.vertices = @ \ {vertex},
                                !.edges = DeleteIncoming(rest, vertex)],
                      Bool(1))

Graph_removeEdge(g, from, to) ==
    IF from \notin g.vertices \/ to \notin g.vertices THEN GraphThrows(g)
    ELSE IF ~HasEdge(g, from, to) THEN GraphReturns(g, Bool(0))
    ELSE LET there == DeleteEdge(g.edges, from, to)
             back == IF ~g.directed THEN DeleteEdge(there, to, from)
                     ELSE there
         IN  GraphReturns([g EXCEPT !.edges = back], Bool(1))

\* removeEdge(vertex1, vertex2) && removeEdge(vertex2, vertex1): the second
\* call is made only if the first returned true
Graph_removeUndirectedEdge(g, vertex1, vertex2) ==
    LET first == Graph_removeEdge(g, vertex1, vertex2) IN
    IF first.threw \/ ~ToBoolean(first.val) THEN first
    ELSE Graph_removeEdge(first.graph, vertex2, vertex1)

MaxVertices == 2

Vertices == 1..MaxVertices

EdgeValues == {1, 2}

\* g = new Graph(directed)
InitGraph ==
    /\ heap = <<>>
    /\ call = NoCall
    /\ writes = <<>>
    /\ chunk = NoChunk
    /\ matcher = NewMatch(Undef)
    /\ \E directed \in BOOLEAN : graph = NewGraph(directed)
    /\ search = NoSearch
    /\ sb = <<>>

\* the caller's record of a call of a method of Graph: its arguments (x, y),
\* what it returned or threw, and the graph before it (pre)
GraphCall(op, x, y, r) ==
    /\ graph' = r.graph
    /\ call' = [NoCall EXCEPT !.op = op, !.x = x, !.y = y, !.out = r.val,
                              !.threw = r.threw, !.pre = graph]
    /\ UNCHANGED <<heap, writes, chunk, matcher, search, sb>>

AddVertexCall(vertex) ==
    GraphCall("addVertex", vertex, vertex, Graph_addVertex(graph, vertex))

AddEdgeCall(from, to, value) ==
    GraphCall("addEdge", from, to, Graph_addEdge(graph, from, to, value))

AddUndirectedEdgeCall(vertex1, vertex2, value) ==
    GraphCall("addUndirectedEdge", vertex1, vertex2,
              Graph_addUndirectedEdge(graph, vertex1, vertex2, value))

RemoveVertexCall(vertex) ==
    GraphCall("removeVertex", vertex, vertex,
              Graph_removeVertex(graph, vertex))

RemoveEdgeCall(from, to) ==
    GraphCall("removeEdge", from, to, Graph_removeEdge(graph, from, to))

RemoveUndirectedEdgeCall(vertex1, vertex2) ==
    GraphCall("removeUndirectedEdge", vertex1, vertex2,
              Graph_removeUndirectedEdge(graph, vertex1, vertex2))

NextGraph ==
    \/ \E vertex \in Vertices : AddVertexCall(vertex)
    \/ \E from, to \in Vertices, value \in EdgeValues :
          AddEdgeCall(from, to, value)
    \/ \E vertex1, vertex2 \in Vertices, value \in EdgeValues :
          AddUndirectedEdgeCall(vertex1, vertex2, value)
    \/ \E vertex \in Vertices : RemoveVertexCall(vertex)
    \/ \E from, to \in Vertices : RemoveEdgeCall(from, to)
    \/ \E vertex1, vertex2 \in Vertices :
          RemoveUndirectedEdgeCall(vertex1, vertex2)

SpecGraph == InitGraph /\ [][NextGraph]_vars

---------------------------------------------------------------------------
(* The searches of Graph.  The while loop runs one iteration per step;     *)
(* search holds the frame: the arguments, the set visited, the queue or    *)
(* the stack (pending) of pairs [vertex, edge], and the calls of the       *)
(* visitor so far (visits).  The visitors are functions of the caller:     *)
(*   31  () => {}        32  (vertex) => vertex !== 1        33  () => true *)
(* The graphs searched are directed graphs the methods above can build;    *)
(* a Map iterates in insertion order, so the edges of a vertex may come in *)
(* any order.                                                              *)

CallVisitor(f, vertex) ==
    CASE f = Fn(31) -> Undef
      [] f = Fn(32) -> Bool(IF vertex # 1 THEN 1 ELSE 0)
      [] f = Fn(33) -> Bool(1)

\* Optional.empty() and Optional.of(value), as the edge handed to the visitor
NoEdge == [present |-> FALSE, value |-> 0]

EdgeOf(value) == [present |-> TRUE, value |-> value]

\* this.#edges.get(vertex) ?? []: the entries [to, Optional.of(value)]
Neighbours_None(g, vertex) == {}

Neighbours(g, vertex) ==
    IF vertex \in DOMAIN g.edges
    THEN {<<to, EdgeOf(g.edges[vertex][to])>> : to \in DOMAIN g.edges[vertex]}
    ELSE {}

\* the orders in which a Map may hand out these entries
Orders(entries) ==
    {order \in [1..Cardinality(entries) -> entries] :
        \A j, k \in DOMAIN order : j # k => order[j] # order[k]}

MaxSearchVertices == 3

MaxSearchEdges == 4

SearchVertices == 1..MaxSearchVertices

Visitors == {Fn(31), Fn(32), Fn(33)}

\* the graph with the vertices vs and an edge of value 1 for each pair of es
GraphOf(vs, es) ==
    [directed |-> TRUE, vertices |-> vs,
     edges |-> [from \in vs |->
                  [to \in {x \in vs : <<from, x>> \in es} |-> 1]]]

SearchGraphs ==
    {GraphOf(vs, es) :
        vs \in SUBSET SearchVertices,
        es \in {s \in SUBSET (SearchVertices \X SearchVertices) :
                   Cardinality(s) <= MaxSearchEdges}}

InitSearch ==
    /\ heap = <<>>
    /\ call = NoCall
    /\ writes = <<>>
    /\ chunk = NoChunk
    /\ matcher = NewMatch(Undef)
    /\ graph \in SearchGraphs
    /\ search = NoSearch
    /\ sb = <<>>

\* the entry of breadthFirstSearch and of depthFirstSearch: the test of
\* start, then visited = {} and the queue or stack holding the start
SearchCall(kind, start, visitor) ==
    /\ search.pc \in {"idle", "returned", "threw"}
    /\ search' =
          IF start \notin graph.vertices
          THEN [NoSearch EXCEPT !.pc = "threw", !.kind = kind,
                                !.start = start, !.visitor = visitor]
          ELSE [NoSearch EXCEPT !.pc = "loop", !.kind = kind,
                                !.start = start, !.visitor = visitor,
                                !.pending = <<<<start, NoEdge>>>>]
    /\ UNCHANGED <<heap, call, writes, chunk, matcher, graph, sb>>

BreadthFirstSearchCall(start, visitor) ==
    SearchCall("breadthFirstSearch", start, visitor)

DepthFirstSearchCall(start, visitor) ==
    SearchCall("depthFirstSearch", start, visitor)

\* the body of the loop for the entry taken off pending, rest being what
\* is left of it
SearchBody(entry, rest) ==
    LET vertex == entry[1] IN
    IF vertex \in search.visited
    THEN search' = [search EXCEPT !.pending = rest]
    ELSE IF StrictEquals(CallVisitor(search.visitor, vertex), Bool(0))
    THEN search' = [search EXCEPT !.pc = "returned", !.pending = rest,
                                  !.visits = Append(@, vertex)]
    ELSE \E order \in Orders(Neighbours(graph, vertex)) :
            search' = [search EXCEPT !.pending = rest \o order,
                                     !.visits = Append(@, vertex),
                                     !.visited = @ \cup {vertex}]

\* one evaluation of queue.length > 0, and either queue.shift() and the
\* body or the return
BreadthFirstSearchStep ==
    /\ search.pc = "loop"
    /\ search.kind = "breadthFirstSearch"
    /\ IF search.pending = <<>>
       THEN search' = [search EXCEPT !.pc = "returned"]
       ELSE SearchBody(Head(search.pending), Tail(search.pending))
    /\ UNCHANGED <<heap, call, writes, chunk, matcher, graph, sb>>

\* one evaluation of stack.length > 0, and either stack.pop() and the body
\* or the return
DepthFirstSearchStep ==
    /\ search.pc = "loop"
    /\ search.kind = "depthFirstSearch"
    /\ IF search.pending = <<>>
       THEN search' = [search EXCEPT !.pc = "returned"]
       ELSE SearchBody(search.pending[Len(search.pending)],
                       SubSeq(search.pending, 1, Len(search.pending) - 1))
    /\ UNCHANGED <<heap, call, writes, chunk, matcher, graph, sb>>

NextSearch ==
    \/ \E start \in SearchVertices, visitor \in Visitors :
          BreadthFirstSearchCall(start, visitor)
    \/ \E start \in SearchVertices, visitor \in Visitors :
          DepthFirstSearchCall(start, visitor)
    \/ BreadthFirstSearchStep
    \/ DepthFirstSearchStep

SpecSearch == InitSearch /\ [][NextSearch]_vars

\* a search that was called runs on: the loop is synchronous code
SpecSearchFair ==
    /\ SpecSearch
    /\ WF_vars(BreadthFirstSearchStep)
    /\ WF_vars(DepthFirstSearchStep)

---------------------------------------------------------------------------
(* What the claims speak of *)

\* the addresses of the objects the fields of the object at address a refer to
Succ(h, a) ==
    {h[a].props[i].v.v : i \in {j \in 1..Len(h[a].props) : IsRef(h[a].props[j].v)}}

RECURSIVE Closure(_, _)
Closure(h, S) ==
    LET T == S \cup UNION {Succ(h, a) : a \in S}
    IN IF T = S THEN S ELSE Closure(h, T)

\* the addresses of the objects reachable from a value: the object itself
\* and every object nested in it at any depth
Reach(h, val) == IF IsRef(val) THEN Closure(h, {val.v}) ELSE {}

\* the object at address a lies on a reference cycle
OnCycle(h, a) == a \in Closure(h, Succ(h, a))

\* the heap as deepClone left it
PostHeap == deepClone(call.pre, call.src).heap

HookFree(h, val) == ~hasFunctionWithArity(h, val, "equals", 1)

\* the state right after a deepClone that returned
JustCloned == call.op = "deepClone" /\ ~call.threw /\ writes = <<>>

\* the state right after deepEquals(v, deepClone(v))
ComparedWithClone ==
    /\ call.op = "deepEquals"
    /\ call.cloned
    /\ writes = <<>>
    /\ call.x = call.src
    /\ call.y = call.out

\* C1: clone equivalence: deepEquals(v, deepClone(v)) returns true for every
\* value v, cyclic structures and class instances included.
C1_CloneEquivalence == ComparedWithClone => call.res = "true"

\* C2: clone independence: after c = deepClone(v), writing a field of c or
\* of a value nested in c leaves everything reachable from v unchanged, and
\* writing a field reachable from v leaves c unchanged.
C2_CloneIndependence ==
    (call.op = "deepClone" /\ ~call.threw /\ IsRef(call.src)) =>
        /\ (\A i \in 1..Len(writes) : writes[i] \in Reach(PostHeap, call.out))
              => \A a \in Reach(PostHeap, call.src) : heap[a] = PostHeap[a]
        /\ (\A i \in 1..Len(writes) : writes[i] \in Reach(PostHeap, call.src))
              => \A a \in Reach(PostHeap, call.out) : heap[a] = PostHeap[a]

\* C3: cycle safety: deepClone of a structure that contains itself returns,
\* and every field of a cloned object that pointed to a source object on a
\* cycle points to that object's clone, never to the original.
C3_CycleSafety ==
    JustCloned =>
        \A o \in DOMAIN call.map : \A i \in 1..Len(call.pre[o].props) :
            LET f == call.pre[o].props[i].v IN
            (IsRef(f) /\ OnCycle(call.pre, f.v)) =>
                /\ f.v \in DOMAIN call.map
                /\ heap[call.map[o]].props[i].v = Ref(call.map[f.v])

\* C4: shared-reference preservation: two fields of the source that point
\* to the same nested object become two fields of the clone that point to
\* one and the same object.
C4_SharedReferences ==
    JustCloned =>
        \A o1, o2 \in DOMAIN call.map :
            \A i \in 1..Len(call.pre[o1].props), j \in 1..Len(call.pre[o2].props) :
                (/\ IsRef(call.pre[o1].props[i].v)
                 /\ call.pre[o1].props[i].v = call.pre[o2].props[j].v)
                    => heap[call.map[o1]].props[i].v = heap[call.map[o2]].props[j].v

\* C5: equality hook precedence: in every invocation of deepEquals, at top
\* level or during recursion, the hook of the first value decides if it has
\* one (the second value's hook is not called), else the hook of the second
\* value; the result is what that hook returns; the structural comparison
\* runs only when neither value has a hook.
C5_HookPrecedence ==
    call.op = "deepEquals" =>
        /\ call.log[1].a = call.x
        /\ call.log[1].b = call.y
        /\ call.log[1].res = call.res
        /\ \A n \in 1..Len(call.log) :
            LET e == call.log[n] IN
            IF hasFunctionWithArity(heap, e.a, "equals", 1)
            THEN e.by = "a" /\ e.res = CallEquals(heap, e.a, e.b)
            ELSE IF hasFunctionWithArity(heap, e.b, "equals", 1)
            THEN e.by = "b" /\ e.res = CallEquals(heap, e.b, e.a)
            ELSE e.by = "none"

\* during a recursion the hook of a first value decided, against the
\* structural comparison and without a call of the second value's hook
C5_Witness ==
    /\ call.op = "deepEquals"
    /\ call.log[1].by = "none"
    /\ \E n \in 2..Len(call.log) :
          /\ call.log[n].by = "a"
          /\ hasFunctionWithArity(heap, call.log[n].b, "equals", 1)
          /\ call.log[n].res = "false"
          /\ Obj(heap, call.log[n].a).props = Obj(heap, call.log[n].b).props

\* the structural comparison of two objects, as the claim states it
SameKeysAndValues(h, value1, value2) ==
    /\ KeySet(Obj(h, value1)) = KeySet(Obj(h, value2))
    /\ \A k \in KeySet(Obj(h, value1)) :
          deepEquals(h, Get(h, value1, k), Get(h, value2, k)).res = "true"

StructuralCase ==
    /\ call.op = "deepEquals"
    /\ IsRef(call.x)
    /\ IsRef(call.y)
    /\ call.x # call.y
    /\ HookFree(heap, call.x)
    /\ HookFree(heap, call.y)

ComparedNaN == call.op = "deepEquals" /\ call.x = NaN /\ call.y = NaN

ComparedWithItself == call.op = "deepEquals" /\ call.x = call.y

\* C8 as stated: deepEquals(v, v) returns true for every value v other than
\* NaN, values that carry an equals hook included.
C8_Reflexivity == (ComparedWithItself /\ call.x # NaN) => call.res = "true"

\* C8 as amended: deepEquals(v, v) returns true for every value v other
\* than NaN that carries no equals hook of arity 1, whether a primitive, a
\* function or a structured value (a cyclic one included).
C8_ReflexivityWithoutHook ==
    (ComparedWithItself /\ call.x # NaN /\ HookFree(heap, call.x))
        => call.res = "true"

\* a structured value that contains itself was compared with itself
C8_Witness ==
    /\ ComparedWithItself
    /\ IsRef(call.x)
    /\ HookFree(heap, call.x)
    /\ OnCycle(heap, call.x.v)

\* C9: symmetry on the fallback path: when neither a nor b defines an equals
\* hook, deepEquals(a, b) and deepEquals(b, a) give the same result.
C9_FallbackSymmetry ==
    (call.op = "deepEquals" /\ HookFree(heap, call.x) /\ HookFree(heap, call.y))
        => call.res = deepEquals(heap, call.y, call.x).res

ComparedPrimitives ==
    call.op = "deepEquals" /\ call.x \in Primitives /\ call.y \in Primitives

\* C10: primitive comparison: for numbers, strings, booleans, null and
\* undefined, deepEquals(a, b) is true exactly when a and b are the same
\* value (SameValue: NaN is NaN, +0 is not -0) and false otherwise; null
\* against undefined is false in both orders.
C10_PrimitiveComparison ==
    ComparedPrimitives =>
        /\ call.res = Truth(call.x = call.y)
        /\ {call.x, call.y} = {Null, Undef} => call.res = "false"

C10_Witness == ComparedPrimitives /\ call.x = Undef /\ call.y = Null

\* C11: totality of deepEquals: for every pair of values, two distinct
\* structures that each contain a reference cycle included, deepEquals
\* terminates and returns a boolean.
C11_Totality == call.op = "deepEquals" => call.res \in {"true", "false"}

\* C12: deepClone has no error path: for every input without a throwing
\* deepClone hook (null, undefined, every other primitive, every function,
\* every structured value whatever the attributes of its properties)
\* deepClone returns a value and does not throw.
C12_NoErrorPath == call.cloned => ~call.threw

\* a deepClone of an object without a hook returned
ClonedObject ==
    /\ call.cloned
    /\ ~call.threw
    /\ IsRef(call.src)
    /\ ~hasDeepCloneMethod(call.pre, call.src)

C14_Passthrough ==
    (call.cloned /\ call.src \in Primitives \cup Functions)
        => ~call.threw /\ call.out = call.src

\* C18: deepClone does not mutate its argument: after deepClone(v) returns
\* for a hook-free v, v and every value reachable from v have the same own
\* keys, the same field values and the same identities as before the call.
C18_ArgumentUnchanged ==
    (ClonedObject /\ call.op = "deepClone" /\ writes = <<>>) =>
        /\ Reach(heap, call.src) = Reach(call.pre, call.src)
        /\ \A a \in Reach(call.pre, call.src) : heap[a] = call.pre[a]

\* an object with a nested object was cloned, the nested object too
C18_Witness ==
    /\ ClonedObject
    /\ call.op = "deepClone"
    /\ writes = <<>>
    /\ Cardinality(Reach(call.pre, call.src)) = 2
    /\ Len(heap) = Len(call.pre) + 2

\* `got`, in the heap `post`, is what the deepClone hook of value returns
\* when it is called in the heap `pre`: the returned value itself, or, when
\* the hook returns an object it creates, an object created by the call with
\* the same content
IsHookResult(pre, post, value, got) ==
    LET r == CallDeepClone(pre, <<>>, value) IN
    /\ ~r.threw
    /\ IF IsRef(r.val) /\ r.val.v > Len(pre)
       THEN /\ IsRef(got)
            /\ got.v > Len(pre)
            /\ post[got.v] = r.heap[r.val.v]
       ELSE got = r.val

\* C15: clone hook: whenever a value met by deepClone, the input or the
\* value of a field, has a deepClone operation of arity 0, the clone of that
\* value is exactly what the hook returns, and deepClone does not traverse
\* the value's fields itself.
C15_CloneHook ==
    (call.op = "deepClone" /\ ~call.threw /\ IsRef(call.src)) =>
        IF hasDeepCloneMethod(call.pre, call.src)
        THEN /\ IsHookResult(call.pre, heap, call.src, call.out)
             /\ heap = CallDeepClone(call.pre, <<>>, call.src).heap
        ELSE \A i \in 1..Len(Obj(call.pre, call.src).props) :
                hasDeepCloneMethod(call.pre, Obj(call.pre, call.src).props[i].v)
                    => IsHookResult(call.pre, heap,
                                    Obj(call.pre, call.src).props[i].v,
                                    Obj(heap, call.out).props[i].v)

\* the number of parameters a function declares
Declared(f) == Len(Params(f))

\* the value has a member of that name that is a function
HasMember(h, value, name) ==
    /\ IsRef(value)
    /\ In(h, name, value)
    /\ TypeOf(Get(h, value, name)) = "function"

\* C16: strict arity: deepEquals never calls an equals member whose declared
\* argument count is not exactly 1, deepClone never calls a deepClone member
\* whose declared argument count is not exactly 0: such a value takes the
\* structural path as if the member were no hook.
C16_StrictArity ==
    /\ call.op = "deepEquals" =>
          \A n \in 1..Len(call.log) :
              /\ call.log[n].by = "a"
                    => Declared(Get(heap, call.log[n].a, "equals")) = 1
              /\ call.log[n].by = "b"
                    => Declared(Get(heap, call.log[n].b, "equals")) = 1
    /\ (/\ call.op = "deepClone"
        /\ HasMember(call.pre, call.src, "deepClone")
        /\ Declared(Get(call.pre, call.src, "deepClone")) # 0) =>
          /\ ~call.threw
          /\ call.out = Ref(Len(call.pre) + 1)
          /\ Obj(heap, call.out).cls = Obj(call.pre, call.src).cls
          /\ OwnKeys(Obj(heap, call.out)) = OwnKeys(Obj(call.pre, call.src))

\* the value has a deepClone hook and the hook throws
HookThrows(h, value) ==
    hasDeepCloneMethod(h, value) /\ CallDeepClone(h, <<>>, value).threw

\* deepClone(value) calls a hook that throws: the hook of value, or the hook
\* of the value of a field of a value that is cloned field by field
MeetsThrowingHook(h, value) ==
    \/ HookThrows(h, value)
    \/ /\ IsRef(value)
       /\ ~hasDeepCloneMethod(h, value)
       /\ Obj(h, value).cls \notin {"Date", "RegExp"}
       /\ \E i \in 1..Len(Obj(h, value).props) :
             /\ InstanceOfObject(h, Obj(h, value).props[i].v)
             /\ HookThrows(h, Obj(h, value).props[i].v)

\* C17: hook failure propagation: when a deepClone hook, on the input or on
\* a nested value, or an equals hook throws, deepClone or deepEquals does not
\* catch it: the call ends with that same failure and returns no value.
C17_HookFailurePropagation ==
    /\ call.op = "deepEquals" =>
          /\ (hasEqualFunction(heap, call.x)
                 /\ CallEquals(heap, call.x, call.y) = "threw")
                => call.res = "threw"
          /\ (\E n \in 1..Len(call.log) :
                 call.log[n].by # "none" /\ call.log[n].res = "threw")
                => call.res = "threw"
    /\ (call.op = "deepClone" /\ MeetsThrowingHook(call.pre, call.src)) =>
          /\ call.threw
          /\ call.out = HookError

\* the hook of a nested value threw and ended the deepClone of its holder
C17_Witness ==
    /\ call.op = "deepClone"
    /\ ~hasDeepCloneMethod(call.pre, call.src)
    /\ MeetsThrowingHook(call.pre, call.src)
    /\ call.out = HookError

\* C19: for every Result obtained from Result.ok, Result.error or Result.try,
\* or returned by map, mapError, mapBoth or filter, isOk() and isError() are
\* opposites: exactly one of them returns true.
C19_OkXorError ==
    \A r \in Refs(heap) :
        Obj(heap, r).cls = "Result"
            => Result_isOk(heap, r) # Result_isError(heap, r)

\* C20: filter(func) on a Result with a success value for which func returns
\* false returns an erroring Result (isError() is true, get() throws); when
\* func returns true it returns a Result with the same success value; on an
\* erroring Result it returns an erroring Result with the same error and
\* does not call func.
C20_Filter ==
    (call.op = "filter" /\ ~call.threw) =>
        IF Result_isError(call.pre, call.src)
        THEN /\ Result_isError(heap, call.out)
             /\ Get(heap, call.out, "error") = Get(call.pre, call.src, "error")
             /\ call.calls = <<>>
        ELSE IF ~Result_isOk(call.pre, call.src) THEN TRUE
        ELSE IF ToBoolean(CallFunc(call.fn, Get(call.pre, call.src, "value")).val)
        THEN /\ Result_isOk(heap, call.out)
             /\ Get(heap, call.out, "value") = Get(call.pre, call.src, "value")
        ELSE /\ Result_isError(heap, call.out)
             /\ Result_get(heap, call.out).threw

\* two distinct hook-free objects, each with the one key a holding a
\* function, were compared
ComparedCallableFields ==
    /\ StructuralCase
    /\ OwnKeys(Obj(heap, call.x)) = <<"a">>
    /\ OwnKeys(Obj(heap, call.y)) = <<"a">>
    /\ TypeOf(Get(heap, call.x, "a")) = "function"
    /\ TypeOf(Get(heap, call.y, "a")) = "function"

\* C26: callable fields are compared by source text, not by reference: when
\* the values at the same key of a and b are both callable, the key passes
\* the comparison exactly when the two have identical source text, whether
\* or not they are the same function object.
C26_CallableBySource ==
    ComparedCallableFields =>
        call.res = Truth(FnSource(Get(heap, call.x, "a"))
                            = FnSource(Get(heap, call.y, "a")))

\* the value `got` of a field of a clone is the clone of the value `val` of
\* the source's field, for a call that started in the heap `pre`: val itself
\* when val is a primitive or a function, an object created by the call
\* when val is an object
IsCloneOf(pre, val, got) ==
    IF IsRef(val) THEN IsRef(got) /\ got.v > Len(pre) ELSE got = val

\* C27: the generic structural clone keeps the shape: for a hook-free
\* structured source that is neither a date nor a regular expression, the
\* clone has the prototype of the source and exactly its own keys, and the
\* value at each key is the clone of the source's value at that key.
C27_CloneKeepsShape ==
    JustCloned =>
        \A o \in DOMAIN call.map :
            /\ heap[call.map[o]].cls = call.pre[o].cls
            /\ OwnKeys(heap[call.map[o]]) = OwnKeys(call.pre[o])
            /\ \A i \in 1..Len(call.pre[o].props) :
                  IsCloneOf(call.pre, call.pre[o].props[i].v,
                            heap[call.map[o]].props[i].v)

\* C28: the visited-set is local to one top-level deepClone call: two
\* top-level calls on the same structured value return clones that share no
\* structured value with each other.
C28_ClonesShareNothing ==
    (call.op = "deepCloneAgain" /\ ~call.threw) =>
        Reach(heap, call.out) \cap Reach(heap, call.out2) = {}

\* C21: Optional.of(v) is empty (isEmpty() true, isPresent() false, get()
\* throws NoValueInOptionalError) exactly when v is null or undefined, and
\* otherwise contains v.
C21_OptionalOf ==
    call.op = "Optional.of" =>
        IF call.x \in {Null, Undef}
        THEN /\ Optional_isEmpty(heap, call.out)
             /\ ~Optional_isPresent(heap, call.out)
             /\ Optional_get(heap, call.out).threw
             /\ Optional_get(heap, call.out).val = NoValueInOptionalError
        ELSE /\ ~Optional_isEmpty(heap, call.out)
             /\ Optional_isPresent(heap, call.out)
             /\ ~Optional_get(heap, call.out).threw
             /\ Optional_get(heap, call.out).val = call.x

\* C22: chunkArray(array, size) with size <= 0 terminates and returns an
\* empty array, for every array, empty or not: the call never runs out of
\* memory in its loop, and what it returns is [].
C22_NonPositiveSize ==
    (chunk.pc # "idle" /\ chunk.size <= 0) =>
        /\ chunk.pc # "exhausted"
        /\ chunk.pc = "returned" => call.out = <<>>

\* C25: StringBuilder keeps one character per internal element: after any
\* sequence of the constructor, append, appendLine, insert and clear, length
\* is the number of characters of toString(), and isEmpty() is true exactly
\* when toString() is the empty string.
C25_OneCharacterPerElement ==
    /\ StringBuilder_length(sb) = Len(StringBuilder_toString(sb))
    /\ StringBuilder_isEmpty(sb) <=> StringBuilder_toString(sb) = <<>>

\* the positions of the patterns that accept the value matched
Accepting ==
    {k \in 1..Len(matcher.patterns) :
        ToBoolean(CallPattern(matcher.patterns[k][1], matcher.value))}

\* C23: Match uses the first matching pattern: after any sequence of
\* addFunc, addEquals and addItemInList, getOrElse(d) returns the result
\* attached to the earliest-added pattern that accepts the value matched,
\* and d when no pattern accepts it.
C23_FirstMatch ==
    call.op = "getOrElse" =>
        IF Accepting = {}
        THEN call.out = call.x
        ELSE \E k \in Accepting :
                /\ \A j \in Accepting : k <= j
                /\ call.out = matcher.patterns[k][2]

\* C24: removeUndirectedEdge(v1, v2), for v1 and v2 in the graph, is
\* equivalent to removeEdge(v1, v2) followed by removeEdge(v2, v1): it
\* leaves the graph as these two calls leave it, with neither direction
\* present, and it returns true if the edge was removed and false if it was
\* not in the graph.
C24_RemoveBothDirections ==
    (/\ call.op = "removeUndirectedEdge"
     /\ call.x \in call.pre.vertices
     /\ call.y \in call.pre.vertices) =>
        LET first == Graph_removeEdge(call.pre, call.x, call.y)
            second == Graph_removeEdge(first.graph, call.y, call.x)
            present == HasEdge(call.pre, call.x, call.y)
                          \/ HasEdge(call.pre, call.y, call.x)
        IN  /\ ~call.threw
            /\ graph = second.graph
            /\ ~HasEdge(graph, call.x, call.y)
            /\ ~HasEdge(graph, call.y, call.x)
            /\ call.out = Bool(IF present THEN 1 ELSE 0)

\* C30: after any sequence of addVertex, addEdge, addUndirectedEdge,
\* removeVertex, removeEdge and removeUndirectedEdge, calls that throw
\* included, every stored edge has both endpoints in the vertex set, and in
\* a graph created with directed = false an edge from a to b is stored
\* exactly when an edge from b to a is stored with the same value.
C30_GraphConsistency ==
    /\ \A from \in DOMAIN graph.edges :
          /\ from \in graph.vertices
          /\ \A to \in DOMAIN graph.edges[from] : to \in graph.vertices
    /\ ~graph.directed =>
          \A a \in DOMAIN graph.edges : \A b \in DOMAIN graph.edges[a] :
             /\ HasEdge(graph, b, a)
             /\ graph.edges[b][a] = graph.edges[a][b]

\* a graph that is not directed holds an edge between two vertices, left
\* there by the removal of a vertex, of an edge, or by a call that threw
C30_Witness ==
    /\ ~graph.directed
    /\ \E a, b \in graph.vertices : a # b /\ HasEdge(graph, a, b)
    /\ \/ call.op \in {"removeVertex", "removeEdge"} /\ call.out = Bool(1)
       \/ call.threw

\* the vertices that the edges of g lead to from the vertices of set
RECURSIVE ReachableFrom(_, _)
ReachableFrom(g, set) ==
    LET next == set \cup {to \in g.vertices :
                             \E from \in set : HasEdge(g, from, to)}
    IN  IF next = set THEN set ELSE ReachableFrom(g, next)

\* the visitor of the running search never returns false
NeverFalse ==
    \A vertex \in SearchVertices :
        CallVisitor(search.visitor, vertex) # Bool(0)

\* the number of calls of the visitor for a vertex
Visits(vertex) ==
    Cardinality({k \in 1..Len(search.visits) : search.visits[k] = vertex})

\* what holds of the visits in every state of a search
SearchVisits ==
    /\ (search.pc # "idle" /\ search.start \notin graph.vertices) =>
          search.pc = "threw"
    /\ search.pc = "threw" =>
          search.start \notin graph.vertices /\ search.visits = <<>>
    /\ (search.pc \in {"loop", "returned"} /\ NeverFalse) =>
          \A vertex \in SearchVertices :
             /\ Visits(vertex) <= 1
             /\ Visits(vertex) = 1 =>
                   vertex \in ReachableFrom(graph, {search.start})
    /\ (search.pc = "returned" /\ NeverFalse) =>
          \A vertex \in ReachableFrom(graph, {search.start}) :
             Visits(vertex) = 1

\* C29: graph search visits each reachable vertex once: on any finite graph,
\* with cycles and self-loops, breadthFirstSearch and depthFirstSearch from
\* a vertex of the graph terminate, and with a visitor that never returns
\* false the visitor is called exactly once for every vertex reachable from
\* the start and never for another vertex; a start that is not in the graph
\* makes the call throw without calling the visitor.
C29_SearchVisitsOnce ==
    /\ []SearchVisits
    /\ (search.pc = "loop") ~> (search.pc = "returned")

\* a search that returned after visiting a cycle through a start with a
\* self-loop, in a graph with a vertex it cannot reach
C29_Witness ==
    /\ search.pc = "returned"
    /\ NeverFalse
    /\ Len(search.visits) = 2
    /\ HasEdge(graph, search.start, search.start)
    /\ \E other \in graph.vertices :
          /\ other # search.start
          /\ HasEdge(graph, search.start, other)
          /\ HasEdge(graph, other, search.start)
    /\ graph.vertices # ReachableFrom(graph, {search.start})

====
